---- MODULE Spec2Model ----
(***************************************************************************)
(* Model of the MPM daughterboard base class (chip-select map, sensor      *)
(* dispatch) and of the Ethernet dispatcher table controller.              *)
(*   src/mpm/python/usrp_mpm/dboard_manager/base.py                        *)
(*   src/mpm/python/usrp_mpm/ethtable.py                                   *)
(***************************************************************************)
EXTENDS Integers, Sequences, FiniteSets, TLC

VARIABLES
    \* DboardManagerBase construction (base.py:39-74)
    spi_devices,        \* kwargs['spi_nodes']: ordered list of spidev paths
    spi_chipselect,     \* class attribute: name -> chip select
    spi_nodes,          \* self._spi_nodes, or the exception __init__ ended with
    spi_errors,         \* number of log.error() lines of _init_spi_nodes
    spi_pc,             \* "new" before __init__, "built" after
    \* DboardManagerBase sensors (base.py:165-197)
    rx_sensor_callback_map,
    tx_sensor_callback_map,
    sensor_req,         \* arguments of the last get_sensor/get_sensors call
    sensor_calls,       \* accessor invocations made by the last call
    sensor_result,      \* what the last call returned or raised
    \* EthDispatcherTable (ethtable.py)
    regs,               \* the UIO register file behind poke32, address -> value
    regs0,              \* regs as the current (or last) call found them
    eth_pc,             \* position inside set_route, "idle" between calls
    frame,              \* locals of the running set_route
    call,               \* operation and arguments of the current (or last) call
    prev,               \* operation and arguments of the call before it
    outcome,            \* "ok" or the exception the last call raised
    eth_errors,         \* number of log.error() lines of the current call
    pokes,              \* every poke32 made so far, in order
    ncalls,             \* number of calls made
    latest              \* per endpoint, the last set_route call that returned

spi_vars == <<spi_devices, spi_chipselect, spi_nodes, spi_errors, spi_pc>>
sensor_vars == <<rx_sensor_callback_map, tx_sensor_callback_map, sensor_req,
                 sensor_calls, sensor_result>>
eth_vars == <<regs, regs0, eth_pc, frame, call, prev, outcome, eth_errors,
              pokes, ncalls, latest>>
vars == <<spi_vars, sensor_vars, eth_vars>>

None == "None"

-----------------------------------------------------------------------------
(* Bounds of the model *)
MaxNodes == 3
MaxSelect == 2
MaxChan == 1
MaxCalls == 2

-----------------------------------------------------------------------------
(* Python helpers *)

\* len(set(d.values()))
DistinctValues(d) == Cardinality({d[k] : k \in DOMAIN d})

\* Whether seq[i] is defined for a Python list (negative i counts from the end).
PyIndexOk(seq, i) == (0 - Len(seq)) <= i /\ i < Len(seq)

\* seq[i] of a Python list, i in range.
PyIndex(seq, i) == IF i >= 0 THEN seq[i + 1] ELSE seq[Len(seq) + i + 1]

-----------------------------------------------------------------------------
(* DboardManagerBase._init_spi_nodes *)

SpiPaths == {"/dev/spidev0.0", "/dev/spidev0.1"}
SpiNames == {"cpld", "lmk", "phase_dac"}
SpiSelects == {0 - 1} \cup (0 .. MaxSelect)

SpiDeviceLists == UNION {[1 .. n -> SpiPaths] : n \in 0 .. MaxNodes}
ChipSelectMaps == UNION {[names -> SpiSelects] : names \in SUBSET SpiNames}

EmptyMap == [k \in {} |-> None]

\* No call made yet.
NoRequest == [op |-> "none", direction |-> <<>>, name |-> None, chan |-> 0]
NoResult == [kind |-> "none", value |-> None, errors |-> 0]

\* Mutant: the sanity check counts the table's entries, not its distinct selects.
_init_spi_nodes_counts_entries(devs, csmap) ==
    IF Len(devs) < Cardinality(DOMAIN csmap)
    THEN [kind |-> "return", value |-> EmptyMap, errors |-> 2]
    ELSE IF \A name \in DOMAIN csmap : PyIndexOk(devs, csmap[name])
         THEN [kind |-> "return",
               value |-> [name \in DOMAIN csmap |-> PyIndex(devs, csmap[name])],
               errors |-> 0]
         ELSE [kind |-> "IndexError", value |-> None, errors |-> 0]

\* base.py:65-74. The dict comprehension indexes the list with every select;
\* an index outside the list raises IndexError out of the function.
_init_spi_nodes(devs, csmap) ==
    IF Len(devs) < DistinctValues(csmap)
    THEN [kind |-> "return", value |-> EmptyMap, errors |-> 2]
    ELSE IF \A name \in DOMAIN csmap : PyIndexOk(devs, csmap[name])
         THEN [kind |-> "return",
               value |-> [name \in DOMAIN csmap |-> PyIndex(devs, csmap[name])],
               errors |-> 0]
         ELSE [kind |-> "IndexError", value |-> None, errors |-> 0]

\* base.py:39-55: __init__ stores what _init_spi_nodes returns.
DboardInit ==
    /\ spi_pc = "new"
    /\ LET r == _init_spi_nodes(spi_devices, spi_chipselect)
       IN /\ spi_nodes' = [kind |-> r.kind, value |-> r.value]
          /\ spi_errors' = r.errors
    /\ spi_pc' = "built"
    /\ UNCHANGED <<spi_devices, spi_chipselect, sensor_vars, eth_vars>>


-----------------------------------------------------------------------------
(* DboardManagerBase.get_sensors / get_sensor *)

\* str.lower() on the letters a direction string is spelled with.
LowerChar(c) ==
    CASE c = "R" -> "r"
      [] c = "X" -> "x"
      [] c = "T" -> "t"
      [] c = "I" -> "i"
      [] c = "O" -> "o"
      [] OTHER -> c

Lower(str) == [i \in DOMAIN str |-> LowerChar(str[i])]

\* Direction strings, letter by letter.
Directions ==
    {<<"r", "x">>, <<"R", "X">>, <<"R", "x">>, <<"t", "x">>, <<"T", "X">>,
     <<"t", "X">>, <<"I", "O">>}

SensorNames == {"lo_locked", "temp"}
RequestNames == SensorNames \cup {"rssi"}
Accessors == {"get_lo_lock_sensor", "get_temp_sensor"}
Chans == 0 .. MaxChan

\* A callback map is a dict: its items in insertion order, keys distinct.
CallbackMaps ==
    {m \in UNION {[1 .. n -> SensorNames \X Accessors] : n \in 0 .. Cardinality(SensorNames)} :
        \A i, j \in DOMAIN m : i # j => m[i][1] # m[j][1]}

\* list(d.keys())
Keys(m) == [i \in DOMAIN m |-> m[i][1]]
KeySet(m) == {m[i][1] : i \in DOMAIN m}
\* d.get(key), key present
Get(m, key) == LET i == CHOOSE i \in DOMAIN m : m[i][1] = key IN m[i][2]

\* The accessor method of the subclass, called with chan: its reading.
SensorAccessor(acc, chan) ==
    [name |-> acc, type |-> "BOOLEAN", unit |-> "locked", value |-> chan]

\* Mutant: the direction is compared without lower().
SelectCallbackMapCaseSensitive(direction) ==
    IF direction = <<"r", "x">> THEN rx_sensor_callback_map
    ELSE tx_sensor_callback_map

\* base.py:186-188
SelectCallbackMap(direction) ==
    IF Lower(direction) = <<"r", "x">> THEN rx_sensor_callback_map
    ELSE tx_sensor_callback_map

\* base.py:177-197
get_sensor(direction, sensor_name, chan) ==
    /\ sensor_req' = [op |-> "get_sensor", direction |-> direction,
                      name |-> sensor_name, chan |-> chan]
    /\ LET callback_map == SelectCallbackMap(direction)
       IN IF sensor_name \notin KeySet(callback_map)
          THEN /\ sensor_calls' = <<>>
               /\ sensor_result' = [kind |-> "RuntimeError", value |-> None,
                                    errors |-> 1]
          ELSE LET acc == Get(callback_map, sensor_name)
               IN /\ sensor_calls' = <<[accessor |-> acc, chan |-> chan]>>
                  /\ sensor_result' = [kind |-> "return",
                                       value |-> SensorAccessor(acc, chan),
                                       errors |-> 0]
    /\ UNCHANGED <<rx_sensor_callback_map, tx_sensor_callback_map, spi_vars, eth_vars>>

\* base.py:165-175
get_sensors(direction, chan) ==
    /\ sensor_req' = [op |-> "get_sensors", direction |-> direction,
                      name |-> None, chan |-> chan]
    /\ sensor_calls' = <<>>
    /\ sensor_result' =
          IF Lower(direction) \notin {<<"r", "x">>, <<"t", "x">>}
          THEN [kind |-> "AssertionError", value |-> None, errors |-> 0]
          ELSE IF Lower(direction) = <<"r", "x">>
               THEN [kind |-> "return", value |-> Keys(rx_sensor_callback_map),
                     errors |-> 0]
               ELSE [kind |-> "return", value |-> Keys(tx_sensor_callback_map),
                     errors |-> 0]
    /\ UNCHANGED <<rx_sensor_callback_map, tx_sensor_callback_map, spi_vars, eth_vars>>


-----------------------------------------------------------------------------
(* Components a specification leaves alone *)

SpiIdle ==
    /\ spi_devices = <<>>
    /\ spi_chipselect = EmptyMap
    /\ spi_nodes = [kind |-> "unset", value |-> None]
    /\ spi_errors = 0
    /\ spi_pc = "new"

SensorIdle ==
    /\ rx_sensor_callback_map = EmptyMap
    /\ tx_sensor_callback_map = EmptyMap
    /\ sensor_req = NoRequest
    /\ sensor_calls = <<>>
    /\ sensor_result = NoResult

-----------------------------------------------------------------------------
(* Python integers wider than the checker's: 16-bit limbs, least            *)
(* significant first, no leading zero limb. <<>> is 0.                      *)

Limb == 256 * 256

RECURSIVE Normalize(_)
Normalize(x) ==
    IF x = <<>> THEN <<>>
    ELSE IF x[Len(x)] = 0 THEN Normalize(SubSeq(x, 1, Len(x) - 1))
    ELSE x

\* int(n) for a small non-negative n
RECURSIVE ToLimbs(_)
ToLimbs(n) == IF n = 0 THEN <<>> ELSE <<n % Limb>> \o ToLimbs(n \div Limb)

\* a | b on two limbs
RECURSIVE BitOr(_, _)
BitOr(a, b) ==
    IF a = 0 THEN b
    ELSE IF b = 0 THEN a
    ELSE 2 * BitOr(a \div 2, b \div 2) + (IF a % 2 = 1 \/ b % 2 = 1 THEN 1 ELSE 0)

LimbAt(x, i) == IF i <= Len(x) THEN x[i] ELSE 0

\* x | y
Or(x, y) ==
    LET n == IF Len(x) > Len(y) THEN Len(x) ELSE Len(y)
    IN Normalize([i \in 1 .. n |-> BitOr(LimbAt(x, i), LimbAt(y, i))])

\* x << 16
ShiftLeft16(x) == IF x = <<>> THEN <<>> ELSE <<0>> \o x

\* x >> 32
ShiftRight32(x) == IF Len(x) <= 2 THEN <<>> ELSE SubSeq(x, 3, Len(x))

\* x & 0xFFFFFFFF
AndFFFFFFFF(x) == Normalize(IF Len(x) <= 2 THEN x ELSE SubSeq(x, 1, 2))

-----------------------------------------------------------------------------
(* netaddr and net.get_mac_addr *)

\* An absent argument (Python None) where a text or an optional int is passed.
PyNone == <<>>

\* Address texts are held field by field: "192.168.10.2" is <<192, 168, 10, 2>>,
\* "aa:bb:cc:dd:ee:ff" is <<170, 187, 204, 221, 238, 255>>.
IpTexts == {<<192, 168, 10, 2>>, <<10, 0, 0, 1>>, <<192, 168, 10, 256>>}
MacTexts == {<<170, 187, 204, 221, 238, 255>>, <<170, 187, 204>>}
\* What get_mac_addr(ip) may answer: a MAC text, or None.
ResolvedMacs == {<<0, 80, 194, 1, 2, 3>>, PyNone}

\* Mutant: the fields are counted, their range is not checked.
IPAddressOkNoRange(text) == Len(text) = 4

\* netaddr.IPAddress(text): whether the text parses as dotted-quad IPv4.
IPAddressOk(text) == Len(text) = 4 /\ \A i \in 1 .. 4 : text[i] \in 0 .. 255

\* int(netaddr.IPAddress(text)), text well-formed
IPAddressInt(text) ==
    Normalize(<<text[3] * 256 + text[4], text[1] * 256 + text[2]>>)

\* netaddr.EUI(text): "ok", or the exception it raises. None is no string.
EUIKind(text) ==
    IF text = PyNone THEN "TypeError"
    ELSE IF Len(text) = 6 /\ \A i \in 1 .. 6 : text[i] \in 0 .. 255 THEN "ok"
    ELSE "AddrFormatError"

\* int(netaddr.EUI(text)), text a well-formed EUI-48
EUIInt(text) ==
    Normalize(<<text[5] * 256 + text[6], text[3] * 256 + text[4],
                text[1] * 256 + text[2]>>)

-----------------------------------------------------------------------------
(* EthDispatcherTable *)

DEFAULT_VITA_PORT == <<49153, 49154>>
OWN_IP_OFFSET == 0
OWN_PORT_OFFSET == <<4, 8>>
SID_IP_OFFSET == 4096
SID_PORT_MAC_HI_OFFSET == 5120
SID_MAC_LO_OFFSET == 6144

\* sid.dst_ep values of the SIDs passed in.
Endpoints == {0, 5, 261}
RoutePorts == {49153, 65536}
VitaPorts == {PyNone, <<0>>, <<49200>>}
VitaSlots == {PyNone, <<0>>, <<1>>, <<2>>, <<0 - 1>>}

Addrs ==
    {OWN_IP_OFFSET, OWN_PORT_OFFSET[1], OWN_PORT_OFFSET[2]}
    \cup {base + 4 * ep :
            base \in {SID_IP_OFFSET, SID_PORT_MAC_HI_OFFSET, SID_MAC_LO_OFFSET},
            ep \in Endpoints}

\* Register contents before the first call: cleared, or left over.
InitialImages == {<<>>, <<48879, 57005>>}

NoCall == [op |-> "none", ep |-> 0, ip |-> <<>>, port |-> <<>>, mac |-> <<>>,
           resolved |-> <<>>, slot |-> <<>>]
NoFrame == [ip_addr_int |-> <<>>, mac_addr_int |-> <<>>, udp_port |-> 0,
            sid_offset |-> 0]

\* self.poke32(addr, data), noted with the number of the call that made it
Poke32(addr, data) ==
    /\ regs' = [regs EXCEPT ![addr] = data]
    /\ pokes' = Append(pokes, [addr |-> addr, data |-> data, call |-> ncalls'])

\* A call enters: the bookkeeping every operation shares.
Enter(c) ==
    /\ eth_pc = "idle"
    /\ ncalls < MaxCalls
    /\ ncalls' = ncalls + 1
    /\ prev' = call
    /\ call' = c
    /\ regs0' = regs

\* ethtable.py:44-51
set_ipv4_addr(ip_addr) ==
    /\ Enter([NoCall EXCEPT !.op = "set_ipv4_addr", !.ip = ip_addr])
    /\ IF IPAddressOk(ip_addr)
       THEN /\ Poke32(OWN_IP_OFFSET, IPAddressInt(ip_addr))
            /\ outcome' = "ok"
       ELSE /\ outcome' = "AddrFormatError"
            /\ UNCHANGED <<regs, pokes>>
    /\ eth_errors' = 0
    /\ UNCHANGED <<eth_pc, frame, latest, spi_vars, sensor_vars>>

\* port_idx or 0 (ethtable.py:58)
PortIdx(port_idx) == IF port_idx = PyNone \/ port_idx[1] = 0 THEN 0 ELSE port_idx[1]

\* Mutant: the default is used only when no port is passed.
PortValueIfNone(port_value, idx) ==
    IF port_value = PyNone
    THEN IF PyIndexOk(DEFAULT_VITA_PORT, idx)
         THEN [kind |-> "ok", value |-> PyIndex(DEFAULT_VITA_PORT, idx)]
         ELSE [kind |-> "IndexError", value |-> 0]
    ELSE [kind |-> "ok", value |-> port_value[1]]

\* port_value or self.DEFAULT_VITA_PORT[port_idx] (ethtable.py:59): the
\* default is looked up only when port_value is None or 0.
PortValue(port_value, idx) ==
    IF port_value = PyNone \/ port_value[1] = 0
    THEN IF PyIndexOk(DEFAULT_VITA_PORT, idx)
         THEN [kind |-> "ok", value |-> PyIndex(DEFAULT_VITA_PORT, idx)]
         ELSE [kind |-> "IndexError", value |-> 0]
    ELSE [kind |-> "ok", value |-> port_value[1]]

\* ethtable.py:53-62
set_vita_port(port_value, port_idx) ==
    /\ Enter([NoCall EXCEPT !.op = "set_vita_port", !.port = port_value,
                            !.slot = port_idx])
    /\ LET idx == PortIdx(port_idx)
           pv == PortValue(port_value, idx)
       IN IF pv.kind # "ok"
          THEN /\ outcome' = pv.kind
               /\ UNCHANGED <<regs, pokes>>
          ELSE IF idx \notin {0, 1}
               THEN /\ outcome' = "AssertionError"
                    /\ UNCHANGED <<regs, pokes>>
               ELSE /\ Poke32(PyIndex(OWN_PORT_OFFSET, idx), ToLimbs(pv.value))
                    /\ outcome' = "ok"
    /\ eth_errors' = 0
    /\ UNCHANGED <<eth_pc, frame, latest, spi_vars, sensor_vars>>

\* ethtable.py:81-97: the arguments are parsed; a failure raises before any
\* register is written. resolved is what get_mac_addr answers when asked.
set_route(dst_ep, ip_addr, udp_port, mac_addr, resolved) ==
    /\ Enter([NoCall EXCEPT !.op = "set_route", !.ep = dst_ep, !.ip = ip_addr,
                            !.port = <<udp_port>>, !.mac = mac_addr,
                            !.resolved = resolved])
    /\ LET mac == IF mac_addr = PyNone THEN resolved ELSE mac_addr
       IN /\ eth_errors' = IF mac = PyNone THEN 1 ELSE 0
          /\ IF ~IPAddressOk(ip_addr)
             THEN /\ outcome' = "AddrFormatError"
                  /\ UNCHANGED <<eth_pc, frame>>
             ELSE IF EUIKind(mac) # "ok"
                  THEN /\ outcome' = EUIKind(mac)
                       /\ UNCHANGED <<eth_pc, frame>>
                  ELSE /\ outcome' = "running"
                       /\ frame' = [ip_addr_int |-> IPAddressInt(ip_addr),
                                    mac_addr_int |-> EUIInt(mac),
                                    udp_port |-> udp_port,
                                    sid_offset |-> 4 * dst_ep]
                       /\ eth_pc' = "poke_ip"
    /\ UNCHANGED <<regs, pokes, latest, spi_vars, sensor_vars>>

\* Address of the Dest-IP entry (ethtable.py:105)
PokeIpAddr == SID_IP_OFFSET + frame.sid_offset

\* Mutant: the MACLo write is skipped.
AfterPokeIpSkipsMacLo == "poke_port_mac_hi"

\* The statement that follows the Dest-IP write (ethtable.py:108).
AfterPokeIp == "poke_mac_lo"

\* ethtable.py:104-107
PokeIp ==
    /\ eth_pc = "poke_ip"
    /\ ncalls' = ncalls
    /\ Poke32(PokeIpAddr, frame.ip_addr_int)
    /\ eth_pc' = AfterPokeIp
    /\ UNCHANGED <<regs0, frame, call, prev, outcome, eth_errors, latest,
                   spi_vars, sensor_vars>>

\* ethtable.py:108-111
PokeMacLo ==
    /\ eth_pc = "poke_mac_lo"
    /\ ncalls' = ncalls
    /\ Poke32(SID_MAC_LO_OFFSET + frame.sid_offset, AndFFFFFFFF(frame.mac_addr_int))
    /\ eth_pc' = "poke_port_mac_hi"
    /\ UNCHANGED <<regs0, frame, call, prev, outcome, eth_errors, latest,
                   spi_vars, sensor_vars>>

\* ethtable.py:112-115, and the return
PokePortMacHi ==
    /\ eth_pc = "poke_port_mac_hi"
    /\ ncalls' = ncalls
    /\ Poke32(SID_PORT_MAC_HI_OFFSET + frame.sid_offset,
              Or(ShiftLeft16(ToLimbs(frame.udp_port)), ShiftRight32(frame.mac_addr_int)))
    /\ eth_pc' = "idle"
    /\ outcome' = "ok"
    /\ latest' = [latest EXCEPT ![call.ep] = call]
    /\ frame' = NoFrame
    /\ UNCHANGED <<regs0, call, prev, eth_errors, spi_vars, sensor_vars>>

EthIdle ==
    /\ regs = [a \in Addrs |-> <<>>]
    /\ regs0 = regs
    /\ eth_pc = "idle"
    /\ frame = NoFrame
    /\ call = NoCall
    /\ prev = NoCall
    /\ outcome = "none"
    /\ eth_errors = 0
    /\ pokes = <<>>
    /\ ncalls = 0
    /\ latest = [ep \in Endpoints |-> NoCall]

InitEth ==
    /\ \E image \in InitialImages : regs = [a \in Addrs |-> image]
    /\ regs0 = regs
    /\ eth_pc = "idle"
    /\ frame = NoFrame
    /\ call = NoCall
    /\ prev = NoCall
    /\ outcome = "none"
    /\ eth_errors = 0
    /\ pokes = <<>>
    /\ ncalls = 0
    /\ latest = [ep \in Endpoints |-> NoCall]
    /\ SpiIdle
    /\ SensorIdle

SetIpv4Addr == \E ip \in IpTexts : set_ipv4_addr(ip)
SetVitaPort == \E port \in VitaPorts, slot \in VitaSlots : set_vita_port(port, slot)
SetRoute ==
    \E ep \in Endpoints, ip \in IpTexts, port \in RoutePorts :
        \/ \E mac \in MacTexts : set_route(ep, ip, port, mac, PyNone)
        \/ \E resolved \in ResolvedMacs : set_route(ep, ip, port, PyNone, resolved)

NextOwn == SetIpv4Addr \/ SetVitaPort
SpecOwn == InitEth /\ [][NextOwn]_vars

NextRoute == SetRoute \/ PokeIp \/ PokeMacLo \/ PokePortMacHi
SpecRoute == InitEth /\ [][NextRoute]_vars

NextEth == NextOwn \/ NextRoute
SpecEth == InitEth /\ [][NextEth]_vars

-----------------------------------------------------------------------------
(* Specifications of the daughterboard base class *)

InitSpi ==
    /\ spi_devices \in SpiDeviceLists
    /\ spi_chipselect \in ChipSelectMaps
    /\ spi_nodes = [kind |-> "unset", value |-> None]
    /\ spi_errors = 0
    /\ spi_pc = "new"
    /\ SensorIdle
    /\ EthIdle

NextSpi == DboardInit

SpecSpi == InitSpi /\ [][NextSpi]_vars

InitSensor ==
    /\ rx_sensor_callback_map \in CallbackMaps
    /\ tx_sensor_callback_map \in CallbackMaps
    /\ sensor_req = NoRequest
    /\ sensor_calls = <<>>
    /\ sensor_result = NoResult
    /\ SpiIdle
    /\ EthIdle

GetSensor == \E d \in Directions, n \in RequestNames, c \in Chans : get_sensor(d, n, c)
GetSensors == \E d \in Directions, c \in Chans : get_sensors(d, c)

NextSensor == GetSensor \/ GetSensors

SpecSensor == InitSensor /\ [][NextSensor]_vars

-----------------------------------------------------------------------------
(* C1: chip-select map *)

C1_Selects == {spi_chipselect[n] : n \in DOMAIN spi_chipselect}
C1_InRange == \A s \in C1_Selects : (0 - Len(spi_devices)) <= s /\ s < Len(spi_devices)
C1_Expect(name) ==
    LET s == spi_chipselect[name]
    IN IF s >= 0 THEN spi_devices[s + 1] ELSE spi_devices[Len(spi_devices) + s + 1]

\* C1 as stated: the result is the empty mapping if and only if there are fewer
\* nodes than distinct selects, and in every other case it is a mapping whose
\* keys are the table's names, each mapped to available_nodes[select].
C1_Original ==
    spi_pc = "built" =>
        /\ (spi_nodes.kind = "return" /\ spi_nodes.value = EmptyMap)
               <=> (Len(spi_devices) < Cardinality(C1_Selects))
        /\ ~(Len(spi_devices) < Cardinality(C1_Selects)) =>
               /\ spi_nodes.kind = "return"
               /\ DOMAIN spi_nodes.value = DOMAIN spi_chipselect
               /\ \A name \in DOMAIN spi_chipselect :
                      spi_nodes.value[name] = C1_Expect(name)

\* C1 amended: with fewer nodes than distinct selects the result is the empty
\* mapping (two errors logged); otherwise, when every select indexes the node
\* list (Python indexing, -len <= s < len), the result maps exactly the table's
\* names, each to available_nodes[select], which is the empty mapping exactly
\* when the table is empty; otherwise the call raises IndexError.
C1_SpiNodes ==
    spi_pc = "built" =>
        IF Len(spi_devices) < Cardinality(C1_Selects)
        THEN spi_nodes = [kind |-> "return", value |-> EmptyMap] /\ spi_errors = 2
        ELSE IF C1_InRange
             THEN /\ spi_nodes.kind = "return"
                  /\ spi_errors = 0
                  /\ DOMAIN spi_nodes.value = DOMAIN spi_chipselect
                  /\ \A name \in DOMAIN spi_chipselect :
                         spi_nodes.value[name] = C1_Expect(name)
                  /\ (spi_nodes.value = EmptyMap) <=> (spi_chipselect = EmptyMap)
             ELSE spi_nodes.kind = "IndexError"

\* Two names share a select, the node count equals the number of distinct
\* selects and is less than the number of names, and the map was built.
C1_Witness ==
    /\ spi_pc = "built"
    /\ Cardinality(DOMAIN spi_chipselect) = 3
    /\ Cardinality(C1_Selects) = 2
    /\ Len(spi_devices) = 2
    /\ C1_InRange
    /\ spi_nodes.kind = "return"
    /\ spi_nodes.value # EmptyMap

-----------------------------------------------------------------------------
(* C8: sensor dispatch *)

C8_RxSpellings == {<<"r", "x">>, <<"R", "x">>, <<"r", "X">>, <<"R", "X">>}
C8_TxSpellings == {<<"t", "x">>, <<"T", "x">>, <<"t", "X">>, <<"T", "X">>}
C8_Map ==
    IF sensor_req.direction \in C8_RxSpellings THEN rx_sensor_callback_map
    ELSE tx_sensor_callback_map
C8_Entries == {C8_Map[i] : i \in DOMAIN C8_Map}

\* C8: after get_sensor with direction rx or tx in any letter case, when the
\* name is no key of that direction's map the call raised and invoked no
\* accessor; when it is a key, the accessor mapped to it was invoked exactly
\* once, with chan, and its result was returned unmodified.
C8_GetSensor ==
    (sensor_req.op = "get_sensor"
        /\ sensor_req.direction \in C8_RxSpellings \cup C8_TxSpellings) =>
        IF \E e \in C8_Entries : e[1] = sensor_req.name
        THEN \E e \in C8_Entries :
                /\ e[1] = sensor_req.name
                /\ sensor_calls = <<[accessor |-> e[2], chan |-> sensor_req.chan]>>
                /\ sensor_result.kind = "return"
                /\ sensor_result.value = SensorAccessor(e[2], sensor_req.chan)
        ELSE /\ sensor_result.kind = "RuntimeError"
             /\ sensor_calls = <<>>

\* An upper-case RX request for a sensor the RX map has and the TX map maps to
\* another accessor, answered by the RX accessor on channel 1.
C8_Witness ==
    /\ sensor_req.op = "get_sensor"
    /\ sensor_req.direction = <<"R", "X">>
    /\ sensor_req.chan = 1
    /\ \E i \in DOMAIN rx_sensor_callback_map, j \in DOMAIN tx_sensor_callback_map :
          /\ rx_sensor_callback_map[i][1] = sensor_req.name
          /\ tx_sensor_callback_map[j][1] = sensor_req.name
          /\ tx_sensor_callback_map[j][2] # rx_sensor_callback_map[i][2]
          /\ sensor_calls = <<[accessor |-> rx_sensor_callback_map[i][2], chan |-> 1]>>
    /\ sensor_result.kind = "return"

-----------------------------------------------------------------------------
(* Claims about EthDispatcherTable *)

\* The pokes of call number n, in order.
CallPokes(n) == LET OfCall(w) == w.call = n IN SelectSeq(pokes, OfCall)
LastPokes == CallPokes(ncalls)
AddrData(w) == <<w.addr, w.data>>

\* The MAC a set_route call works with: the one passed, else the one resolved.
CallMac == IF call.mac = PyNone THEN call.resolved ELSE call.mac

RouteReturned == eth_pc = "idle" /\ call.op = "set_route" /\ outcome = "ok"

\* Expected words, from the register layout: 16-bit halves, low half first.
Word(hi, lo) == IF hi = 0 THEN (IF lo = 0 THEN <<>> ELSE <<lo>>) ELSE <<lo, hi>>
ExpectIp(text) == Word(text[1] * 256 + text[2], text[3] * 256 + text[4])
ExpectMacLo(text) == Word(text[3] * 256 + text[4], text[5] * 256 + text[6])
ExpectMacHi(text) == text[1] * 256 + text[2]
\* (udp_port << 16) | mac_hi16, for any port below 2^31
ExpectPortMacHi(port, machi) ==
    IF port < 65536 THEN Word(port, machi)
    ELSE <<machi, port % 65536, port \div 65536>>

TableEntry(ep) == {4096 + 4 * ep, 5120 + 4 * ep, 6144 + 4 * ep}

\* C2 without its last clause: a returned set_route made exactly three writes,
\* the Dest-IP, MACLo and Port+MACHi entries of its endpoint, with the values
\* of the layout, and registers 0x0000, 0x0004, 0x0008 are as the call found
\* them.
C2_ThreeWrites ==
    RouteReturned =>
        /\ Len(LastPokes) = 3
        /\ {AddrData(LastPokes[i]) : i \in 1 .. 3} =
              {<<4096 + 4 * call.ep, ExpectIp(call.ip)>>,
               <<6144 + 4 * call.ep, ExpectMacLo(CallMac)>>,
               <<5120 + 4 * call.ep, ExpectPortMacHi(call.port[1], ExpectMacHi(CallMac))>>}
        /\ \A a \in {0, 4, 8} : regs[a] = regs0[a]

\* C2: a returned set_route made exactly the three writes of C2_ThreeWrites and
\* left the own-IP and own-port registers and the table entries of every other
\* endpoint as the call found them.
C2_Original ==
    /\ C2_ThreeWrites
    /\ RouteReturned =>
          \A ep \in Endpoints \ {call.ep} : \A a \in TableEntry(ep) : regs[a] = regs0[a]

\* C3: the three writes of a returned set_route land in the Dest-IP bank
\* [0x1000, 0x1400), the MACLo bank (0x1800 and up, 0x400 long) and the
\* Port+MACHi bank [0x1400, 0x1800) in that order.
C3_Original ==
    (RouteReturned /\ Len(LastPokes) = 3) =>
        /\ LastPokes[1].addr \in 4096 .. 5119
        /\ LastPokes[2].addr \in 6144 .. 7167
        /\ LastPokes[3].addr \in 5120 .. 6143

\* C4: the writes of each set_route call are the Dest-IP entry, then the MACLo
\* entry, then the Port+MACHi entry of the call's endpoint; a call that failed
\* to parse its arguments wrote nothing; and the writes of one call are not
\* interleaved with those of another.
C4_WriteOrder ==
    /\ \A i, j \in DOMAIN pokes : i < j => pokes[i].call <= pokes[j].call
    /\ \A n \in 1 .. ncalls :
          LET w == CallPokes(n)
          IN /\ Len(w) <= 3
             /\ Len(w) >= 1 => w[1].addr \in {4096 + 4 * ep : ep \in Endpoints}
             /\ Len(w) >= 2 => w[2].addr = w[1].addr + 2048
             /\ Len(w) >= 3 => w[3].addr = w[1].addr + 1024
             /\ n < ncalls => Len(w) \in {0, 3}
    /\ call.op = "set_route" =>
          /\ Len(LastPokes) =
                (CASE eth_pc = "poke_ip" -> 0
                   [] eth_pc = "poke_mac_lo" -> 1
                   [] eth_pc = "poke_port_mac_hi" -> 2
                   [] OTHER -> IF outcome = "ok" THEN 3 ELSE 0)
          /\ Len(LastPokes) >= 1 => LastPokes[1].addr = 4096 + 4 * call.ep
          /\ Len(LastPokes) >= 1 => IPAddressOk(call.ip) /\ EUIKind(CallMac) = "ok"

\* Two set_route calls for different endpoints have both returned.
C4_Witness ==
    /\ ncalls = 2
    /\ eth_pc = "idle"
    /\ Len(pokes) = 6
    /\ pokes[1].call = 1
    /\ pokes[4].call = 2
    /\ pokes[4].addr # pokes[1].addr

\* C5: set_route without a MAC, when resolution answers None, logs an error,
\* returns, and has written the three entries with a zero MAC.
C5_Original ==
    (eth_pc = "idle" /\ call.op = "set_route" /\ call.mac = PyNone
        /\ call.resolved = PyNone /\ call.ip \in {<<192, 168, 10, 2>>, <<10, 0, 0, 1>>}) =>
        /\ eth_errors = 1
        /\ outcome = "ok"
        /\ Len(LastPokes) = 3
        /\ regs[6144 + 4 * call.ep] = <<>>
        /\ regs[5120 + 4 * call.ep] = Word(call.port[1], 0)

C6_Slot == IF call.slot = PyNone THEN 0 ELSE call.slot[1]
C6_Default == IF C6_Slot = 0 THEN 49153 ELSE 49154
C6_Rejected == outcome # "ok" /\ LastPokes = <<>> /\ regs = regs0
C6_Wrote(value) ==
    /\ outcome = "ok"
    /\ LastPokes = <<[addr |-> IF C6_Slot = 0 THEN 4 ELSE 8, data |-> <<value>>,
                      call |-> ncalls]>>
    /\ regs = [regs0 EXCEPT ![IF C6_Slot = 0 THEN 4 ELSE 8] = <<value>>]

\* C6 as stated: set_vita_port makes one write, to 0x0004 for slot 0 (or unset)
\* and 0x0008 for slot 1, of the given port whatever its value, the default
\* only when the port is unset; any other slot is rejected with no write.
C6_Original ==
    call.op = "set_vita_port" =>
        IF C6_Slot \in {0, 1}
        THEN C6_Wrote(IF call.port = PyNone THEN C6_Default ELSE call.port[1])
        ELSE C6_Rejected

\* C6 amended: the value written is the given port when it is not 0, and the
\* default 49153 (slot 0) / 49154 (slot 1) when the port is unset or 0.
C6_VitaPort ==
    call.op = "set_vita_port" =>
        IF C6_Slot \in {0, 1}
        THEN C6_Wrote(IF call.port = PyNone \/ call.port = <<0>>
                      THEN C6_Default ELSE call.port[1])
        ELSE C6_Rejected

\* Port 0 was passed for slot 1 and the default of slot 1 was written.
C6_Witness ==
    /\ call.op = "set_vita_port"
    /\ call.port = <<0>>
    /\ call.slot = <<1>>
    /\ outcome = "ok"
    /\ regs[8] = <<49154>>
    /\ regs0[8] # <<49154>>

\* C7: set_ipv4_addr on a well-formed IPv4 text writes its packed integer to
\* register 0x0000 and nothing else; on a malformed one it raises the address
\* format error and writes no register.
C7_OwnIp ==
    call.op = "set_ipv4_addr" =>
        IF Len(call.ip) = 4 /\ \A i \in 1 .. 4 : call.ip[i] <= 255
        THEN /\ outcome = "ok"
             /\ LastPokes = <<[addr |-> 0, data |-> ExpectIp(call.ip), call |-> ncalls]>>
             /\ regs = [regs0 EXCEPT ![0] = ExpectIp(call.ip)]
        ELSE /\ outcome = "AddrFormatError"
             /\ LastPokes = <<>>
             /\ regs = regs0

\* A malformed address was refused after a well-formed one had been written,
\* and the register still holds the first.
C7_Witness ==
    /\ call.op = "set_ipv4_addr"
    /\ call.ip = <<192, 168, 10, 256>>
    /\ outcome = "AddrFormatError"
    /\ prev.op = "set_ipv4_addr"
    /\ prev.ip = <<192, 168, 10, 2>>
    /\ regs[0] = <<2562, 49320>>

\* C9: every word set_route writes fits 32 bits, and the Port+MACHi word has
\* udp_port in its upper and the MAC's upper 16 bits in its lower half.
C9_Original ==
    /\ \A i \in DOMAIN pokes : Len(pokes[i].data) <= 2
    /\ RouteReturned =>
          regs[5120 + 4 * call.ep] = Word(call.port[1], ExpectMacHi(CallMac))

C10_SameTwice ==
    /\ call = prev
    /\ call.op # "none"
    /\ call.op = "set_route" => call.mac # PyNone

\* C10, first half: a call repeated with the same arguments leaves the
\* registers as the first one left them.
C10_Idempotent == (eth_pc = "idle" /\ C10_SameTwice) => regs = regs0

C10_Mac(c) == IF c.mac = PyNone THEN c.resolved ELSE c.mac

\* C10: a repeated call changes nothing, and between calls the three table
\* registers of each endpoint hold the values of the most recent set_route
\* call that returned for that endpoint.
C10_Original ==
    /\ C10_Idempotent
    /\ eth_pc = "idle" =>
          \A ep \in Endpoints :
              latest[ep].op = "set_route" =>
                  /\ regs[4096 + 4 * ep] = ExpectIp(latest[ep].ip)
                  /\ regs[6144 + 4 * ep] = ExpectMacLo(C10_Mac(latest[ep]))
                  /\ regs[5120 + 4 * ep] =
                        ExpectPortMacHi(latest[ep].port[1],
                                        ExpectMacHi(C10_Mac(latest[ep])))

====
